---- MODULE Spec2Model ----
(***************************************************************************)
(* Model of the circular buffer of src/c/buffer/buffer.c and buffer.h.     *)
(*                                                                         *)
(* Pointers into the data block are modelled as byte offsets from b->data. *)
(* The code does arithmetic on void*, which the compilers that accept it   *)
(* (GNU C) perform in units of one byte, so "+ 1" is one byte.             *)
(* The bit-field struct B_BITS is laid out as GCC/Clang lay it out on the  *)
(* usual little-endian ABIs: 'unused' in bits 0..5, 'overwrite' in bit 6,  *)
(* 'stack' in bit 7; this is the layout the constants of buffer.h assume.  *)
(***************************************************************************)
EXTENDS Integers, Sequences, FiniteSets

(***************************************************************************)
(* Bounds of the model.                                                    *)
(***************************************************************************)
\* largest numberOfElements passed to newBuffer
MaxCapacity == 2
\* largest elementSizeInBytes passed to newBuffer
MaxWidth == 2
\* largest element count l passed to pushToBuffer / popFromBuffer
MaxL == 2

(***************************************************************************)
(* Constants of buffer.h.                                                  *)
(***************************************************************************)
B_STACK == 255
B_QUEUE == 127
B_OVERWRITE == 255
B_DROP == 191

\* C's bitwise & on unsigned char values
RECURSIVE BitAnd(_, _)
BitAnd(x, y) ==
    IF x = 0 \/ y = 0 THEN 0
    ELSE (IF x % 2 = 1 /\ y % 2 = 1 THEN 1 ELSE 0) + 2 * BitAnd(x \div 2, y \div 2)

\* the four configurations the header documents: mode & policy
Behaviors == { BitAnd(m, p) : m \in {B_STACK, B_QUEUE}, p \in {B_OVERWRITE, B_DROP} }

VARIABLES
    live,        \* TRUE while the caller holds a buffer returned by newBuffer
    heap,        \* the heap blocks currently allocated
    freed,       \* the heap blocks the last call gave back
    b,           \* the buffer_t the caller's pointer refers to
    cfg,         \* the arguments of the newBuffer call that made b
    op,          \* the last call made
    l,           \* its element count argument
    d,           \* the caller's memory d after the call
    ret,         \* its return value
    pre,         \* b as it was before the call
    failedbytes, \* bytes undone by the partial-element branch of the call
    hist,        \* history: the elements pushed and not yet popped or evicted
    expect       \* history: the elements the last pop was due to deliver

vars == <<live, heap, freed, b, cfg, op, l, d, ret, pre, failedbytes, hist, expect>>

\* the struct before newBuffer has filled it
NoBuffer == [data |-> <<>>, head |-> 0, tail |-> 0, depth |-> 0, width |-> 0, behavior |-> 0]
NoCfg == [numberOfElements |-> 0, elementSizeInBytes |-> 0, behavior |-> 0]

(***************************************************************************)
(* The bit-fields of b->behavior.                                          *)
(***************************************************************************)
overwrite(bf) == (bf.behavior \div 64) % 2 = 1
stack(bf) == (bf.behavior \div 128) % 2 = 1

\* the last byte of the data block instead
lastOffsetWholeBlock(bf) == bf.depth * bf.width - 1

\* offset of data + (depth - 1) * width
lastOffset(bf) == (bf.depth - 1) * bf.width

(***************************************************************************)
(* isBufferEmpty, isBufferFull                                             *)
(***************************************************************************)
isBufferEmpty(bf) == bf.head = bf.tail

\* isBufferFull without the test for head at the last offset and tail at the first
isBufferFullNoWrap(bf) == bf.tail = bf.head + 1

isBufferFull(bf) ==
    \/ bf.tail = bf.head + 1
    \/ (bf.tail = 0 /\ bf.head >= lastOffset(bf))

(***************************************************************************)
(* increment, decrement: the new value of the pointer *ht                  *)
(***************************************************************************)
\* increment that wraps one step too late
incrementPastLast(bf, ht) == IF ht <= lastOffset(bf) THEN ht + 1 ELSE 0

\* increment that steps by the width of an element
incrementBySlot(bf, ht) == IF ht < lastOffset(bf) THEN ht + bf.width ELSE 0

increment(bf, ht) == IF ht < lastOffset(bf) THEN ht + 1 ELSE 0

decrement(bf, ht) == IF ht > 0 THEN ht - 1 ELSE lastOffset(bf)

(***************************************************************************)
(* popByte: the buffer after the call and the byte returned                *)
(***************************************************************************)
\* popByte that pops from tail whatever the mode
popByteAlwaysTail(bf) ==
    [b |-> [bf EXCEPT !.tail = increment(bf, bf.tail)], d |-> bf.data[bf.tail]]

\* popByte whose queue branch steps tail before it reads
popByteIncFirst(bf) ==
    IF stack(bf)
    THEN LET h == decrement(bf, bf.head)
         IN  [b |-> [bf EXCEPT !.head = h], d |-> bf.data[h]]
    ELSE LET t == increment(bf, bf.tail)
         IN  [b |-> [bf EXCEPT !.tail = t], d |-> bf.data[t]]

popByte(bf) ==
    IF stack(bf)
    THEN LET h == decrement(bf, bf.head)
         IN  [b |-> [bf EXCEPT !.head = h], d |-> bf.data[h]]
    ELSE [b |-> [bf EXCEPT !.tail = increment(bf, bf.tail)], d |-> bf.data[bf.tail]]

(***************************************************************************)
(* pushByte: the buffer after the call                                     *)
(***************************************************************************)
\* pushByte that never steps tail
pushByteNoEvict(bf, byte) ==
    [bf EXCEPT !.data[bf.head] = byte, !.head = increment(bf, bf.head)]

pushByte(bf, byte) ==
    LET b1 == IF isBufferFull(bf) /\ overwrite(bf)
              THEN [bf EXCEPT !.tail = increment(bf, bf.tail)]
              ELSE bf
    IN  [b1 EXCEPT !.data[b1.head] = byte, !.head = increment(b1, b1.head)]

(***************************************************************************)
(* pushToBuffer                                                            *)
(***************************************************************************)
\* the test without its overwrite half
mayPushDropOnly(bf) == ~isBufferFull(bf)

\* the test that lets a byte be pushed
mayPush(bf) == (~isBufferFull(bf)) \/ overwrite(bf)

\* no taking back at all
pushUndoNothing(bf, fb) == bf

\* the loop that takes back the bytes of an incomplete element
RECURSIVE pushUndo(_, _)
pushUndo(bf, fb) ==
    IF fb > 0 THEN pushUndo([bf EXCEPT !.head = decrement(bf, bf.head)], fb - 1)
    ELSE bf

\* the count without the element that was being pushed
pushFailedLessOne(n, elementIndex) == n - elementIndex - 1

\* the count of failed push operations returned when the buffer is full
pushFailed(n, elementIndex) == n - elementIndex

\* the two nested loops, from (elementIndex, byteIndex) on
RECURSIVE pushLoop(_, _, _, _, _)
pushLoop(bf, src, n, elementIndex, byteIndex) ==
    IF elementIndex >= n THEN [b |-> bf, ret |-> 0, failedbytes |-> 0]
    ELSE IF byteIndex >= bf.width THEN pushLoop(bf, src, n, elementIndex + 1, 0)
    ELSE IF mayPush(bf)
         THEN pushLoop(pushByte(bf, src[elementIndex * bf.width + byteIndex]),
                       src, n, elementIndex, byteIndex + 1)
         ELSE [b |-> pushUndo(bf, byteIndex), ret |-> pushFailed(n, elementIndex),
               failedbytes |-> byteIndex]

pushToBuffer(bf, src, n) == pushLoop(bf, src, n, 0, 0)

(***************************************************************************)
(* popFromBuffer                                                           *)
(***************************************************************************)
\* popDest that does not swap the bytes of a stack's elements back
popDestNoSwap(bf, elementIndex, byteIndex) == elementIndex * bf.width + byteIndex

\* offset in d that receives the byte popped at (elementIndex, byteIndex)
popDest(bf, elementIndex, byteIndex) ==
    IF stack(bf)
    THEN (elementIndex + 1) * bf.width - 1 - byteIndex
    ELSE elementIndex * bf.width + byteIndex

\* the loop that pushes back the bytes of an incomplete element
RECURSIVE popUndo(_, _, _, _)
popUndo(bf, dst, elementIndex, fb) ==
    IF fb > 0
    THEN popUndo(pushByte(bf, dst[elementIndex * bf.width + fb]), dst, elementIndex, fb - 1)
    ELSE bf

\* the count without the element that was being popped
popFailedLessOne(n, elementIndex) == n - elementIndex - 1

\* the count of failed pop operations returned when the buffer is empty
popFailed(n, elementIndex) == n - elementIndex

\* the two nested loops, from (elementIndex, byteIndex) on
RECURSIVE popLoop(_, _, _, _, _)
popLoop(bf, dst, n, elementIndex, byteIndex) ==
    IF elementIndex >= n THEN [b |-> bf, d |-> dst, ret |-> 0, failedbytes |-> 0]
    ELSE IF byteIndex >= bf.width THEN popLoop(bf, dst, n, elementIndex + 1, 0)
    ELSE IF ~isBufferEmpty(bf)
         THEN LET r == popByte(bf)
              IN  popLoop(r.b, [dst EXCEPT ![popDest(bf, elementIndex, byteIndex)] = r.d],
                          n, elementIndex, byteIndex + 1)
         ELSE [b |-> popUndo(bf, dst, elementIndex, byteIndex), d |-> dst,
               ret |-> popFailed(n, elementIndex), failedbytes |-> byteIndex]

popFromBuffer(bf, dst, n) == popLoop(bf, dst, n, 0, 0)

(***************************************************************************)
(* newBuffer: the struct it fills in when both allocations succeed         *)
(***************************************************************************)
\* newBuffer that sets depth without the extra slot
newBufferInitNoSentinel(numberOfElements, elementSizeInBytes, behavior) ==
    [data     |-> [i \in 0 .. (numberOfElements + 1) * elementSizeInBytes - 1 |-> 0],
     head     |-> 0,
     tail     |-> 0,
     width    |-> elementSizeInBytes,
     depth    |-> numberOfElements,
     behavior |-> behavior]

\* newBuffer that counts one slot too many in depth
newBufferInitExtraSlot(numberOfElements, elementSizeInBytes, behavior) ==
    [data     |-> [i \in 0 .. (numberOfElements + 1) * elementSizeInBytes - 1 |-> 0],
     head     |-> 0,
     tail     |-> 0,
     width    |-> elementSizeInBytes,
     depth    |-> numberOfElements + 2,
     behavior |-> behavior]

newBufferInit(numberOfElements, elementSizeInBytes, behavior) ==
    [data     |-> [i \in 0 .. (numberOfElements + 1) * elementSizeInBytes - 1 |-> 0],
     head     |-> 0,
     tail     |-> 0,
     width    |-> elementSizeInBytes,
     depth    |-> numberOfElements + 1,
     behavior |-> behavior]

\* newBuffer that returns NULL without free(b) when calloc fails
newBufferLeak(numberOfElements, elementSizeInBytes, behavior, mallocOk, callocOk) ==
    IF ~mallocOk
    THEN [ok |-> FALSE, held |-> {}, freed |-> {}, b |-> NoBuffer]
    ELSE IF ~callocOk
    THEN [ok |-> FALSE, held |-> {"buffer_t"}, freed |-> {}, b |-> NoBuffer]
    ELSE [ok |-> TRUE, held |-> {"buffer_t", "data"}, freed |-> {},
          b |-> newBufferInit(numberOfElements, elementSizeInBytes, behavior)]

\* newBuffer: whether it returns a buffer (ok) or NULL, the blocks it
\* allocated, those it freed again, and the struct behind the pointer
newBuffer(numberOfElements, elementSizeInBytes, behavior, mallocOk, callocOk) ==
    IF ~mallocOk
    THEN [ok |-> FALSE, held |-> {}, freed |-> {}, b |-> NoBuffer]
    ELSE IF ~callocOk
    THEN [ok |-> FALSE, held |-> {"buffer_t"}, freed |-> {"buffer_t"}, b |-> NoBuffer]
    ELSE [ok |-> TRUE, held |-> {"buffer_t", "data"}, freed |-> {},
          b |-> newBufferInit(numberOfElements, elementSizeInBytes, behavior)]

(***************************************************************************)
(* The caller's data.                                                      *)
(***************************************************************************)
\* byte i of the element with value v: the value in the high nibble, the
\* byte's position in the low nibble, so that every byte tells where it
\* comes from
ElementByte(v, i) == 16 * v + i

\* the memory holding the elements vs (a sequence of values), w bytes each
Memory(vs, w) == [k \in 0 .. Len(vs) * w - 1 |-> ElementByte(vs[(k \div w) + 1], k % w)]

\* what the destination of a pop may hold before the call
Garbage == {0, 238}

\* The values of the elements the caller pushes.  No branch of buffer.c
\* reads a data byte, so two values, enough to tell an element from its
\* neighbours, stand for all of them.
Values == {1, 2}

\* the elements of one call: n values that start with v and alternate
Alternate(v, n) == [k \in 1 .. n |-> IF k % 2 = 1 THEN v ELSE 3 - v]

\* element e (from 0) of memory m, as the sequence of its w bytes
ElemAt(m, w, e) == [i \in 1 .. w |-> m[e * w + i - 1]]

\* the first n elements of memory m
Elems(m, w, n) == [e \in 1 .. n |-> ElemAt(m, w, e - 1)]

Reverse(s) == [i \in 1 .. Len(s) |-> s[Len(s) + 1 - i]]

Min(x, y) == IF x < y THEN x ELSE y

\* the last n elements of s
LastN(s, n) == SubSeq(s, Len(s) - n + 1, Len(s))

(***************************************************************************)
(* The state machine.                                                      *)
(***************************************************************************)
Init ==
    /\ live = FALSE
    /\ heap = {}
    /\ freed = {}
    /\ b = NoBuffer
    /\ cfg = NoCfg
    /\ op = "none"
    /\ l = 0
    /\ d = <<>>
    /\ ret = 0
    /\ pre = NoBuffer
    /\ failedbytes = 0
    /\ hist = <<>>
    /\ expect = <<>>

\* b = newBuffer(numberOfElements, elementSizeInBytes, behavior)
CallNewBuffer ==
    /\ ~live
    /\ \E numberOfElements \in 1 .. MaxCapacity, elementSizeInBytes \in 1 .. MaxWidth,
          behavior \in Behaviors, mallocOk \in BOOLEAN, callocOk \in BOOLEAN :
        /\ cfg' = [numberOfElements |-> numberOfElements,
                   elementSizeInBytes |-> elementSizeInBytes,
                   behavior |-> behavior]
        /\ \E r \in {newBuffer(numberOfElements, elementSizeInBytes, behavior,
                                mallocOk, callocOk)} :
            /\ live' = r.ok
            /\ heap' = (heap \cup r.held) \ r.freed
            /\ freed' = r.freed
            /\ b' = r.b
    /\ op' = "newBuffer"
    /\ l' = 0
    /\ d' = <<>>
    /\ ret' = 0
    /\ pre' = NoBuffer
    /\ failedbytes' = 0
    /\ hist' = <<>>
    /\ expect' = <<>>

\* freeBuffer(b)
CallFreeBuffer ==
    /\ live
    /\ live' = FALSE
    /\ heap' = heap \ {"data", "buffer_t"}
    /\ freed' = {"data", "buffer_t"}
    /\ b' = NoBuffer
    /\ cfg' = NoCfg
    /\ op' = "freeBuffer"
    /\ l' = 0
    /\ d' = <<>>
    /\ ret' = 0
    /\ pre' = NoBuffer
    /\ failedbytes' = 0
    /\ hist' = <<>>
    /\ expect' = <<>>

\* isBufferEmpty(b) that finds out by popping a byte
CallIsBufferEmptyPops ==
    /\ live
    /\ op' = "isBufferEmpty"
    /\ ret' = IF isBufferEmpty(b) THEN 1 ELSE 0
    /\ b' = IF isBufferEmpty(b) THEN b ELSE popByte(b).b
    /\ pre' = b
    /\ l' = 0
    /\ d' = <<>>
    /\ failedbytes' = 0
    /\ UNCHANGED <<live, heap, cfg, hist, expect>>
    /\ freed' = {}

\* isBufferEmpty(b)
CallIsBufferEmpty ==
    /\ live
    /\ op' = "isBufferEmpty"
    /\ ret' = IF isBufferEmpty(b) THEN 1 ELSE 0
    /\ pre' = b
    /\ l' = 0
    /\ d' = <<>>
    /\ failedbytes' = 0
    /\ UNCHANGED <<live, heap, b, cfg, hist, expect>>
    /\ freed' = {}

\* isBufferFull(b)
CallIsBufferFull ==
    /\ live
    /\ op' = "isBufferFull"
    /\ ret' = IF isBufferFull(b) THEN 1 ELSE 0
    /\ pre' = b
    /\ l' = 0
    /\ d' = <<>>
    /\ failedbytes' = 0
    /\ UNCHANGED <<live, heap, b, cfg, hist, expect>>
    /\ freed' = {}

\* what the caller asked newBuffer for
Cap == cfg.numberOfElements
W == cfg.elementSizeInBytes
AskedStack == \E p \in {B_OVERWRITE, B_DROP} : cfg.behavior = BitAnd(B_STACK, p)
AskedQueue == \E p \in {B_OVERWRITE, B_DROP} : cfg.behavior = BitAnd(B_QUEUE, p)
AskedOverwrite == \E m \in {B_STACK, B_QUEUE} : cfg.behavior = BitAnd(m, B_OVERWRITE)
AskedDrop == \E m \in {B_STACK, B_QUEUE} : cfg.behavior = BitAnd(m, B_DROP)

\* the history after the first n elements of memory src were pushed: under
\* B_OVERWRITE only the most recent Cap elements remain
HistPush(h, src, n) ==
    LET all == h \o Elems(src, W, n)
    IN  IF AskedOverwrite /\ Len(all) > Cap THEN LastN(all, Cap) ELSE all

\* the elements a pop of m elements is due to deliver, and those that remain
HistDue(h, m) == IF AskedStack THEN Reverse(LastN(h, m)) ELSE SubSeq(h, 1, m)
HistRest(h, m) == IF AskedStack THEN SubSeq(h, 1, Len(h) - m) ELSE SubSeq(h, m + 1, Len(h))

\* pushToBuffer(b, d, l); the one-element sets bind the call's result once
CallPushToBuffer ==
    /\ live
    /\ \E n \in 1 .. MaxL, v \in Values :
        \E src \in {Memory(Alternate(v, n), b.width)} :
        \E r \in {pushToBuffer(b, src, n)} :
            /\ op' = "pushToBuffer"
            /\ l' = n
            /\ d' = src
            /\ ret' = r.ret
            /\ b' = r.b
            /\ failedbytes' = r.failedbytes
            /\ hist' = HistPush(hist, src, n - r.ret)
    /\ pre' = b
    /\ expect' = <<>>
    /\ freed' = {}
    /\ UNCHANGED <<live, heap, cfg>>

\* popFromBuffer(b, d, l)
CallPopFromBuffer ==
    /\ live
    /\ \E n \in 1 .. MaxL, g \in Garbage :
        \E r \in {popFromBuffer(b, [k \in 0 .. n * b.width - 1 |-> g], n)} :
        \E m \in {Min(n - r.ret, Len(hist))} :
            /\ op' = "popFromBuffer"
            /\ l' = n
            /\ d' = r.d
            /\ ret' = r.ret
            /\ b' = r.b
            /\ failedbytes' = r.failedbytes
            /\ expect' = HistDue(hist, m)
            /\ hist' = HistRest(hist, m)
    /\ pre' = b
    /\ freed' = {}
    /\ UNCHANGED <<live, heap, cfg>>

Next ==
    \/ CallNewBuffer
    \/ CallFreeBuffer
    \/ CallIsBufferEmpty
    \/ CallIsBufferFull
    \/ CallPushToBuffer
    \/ CallPopFromBuffer

Spec == Init /\ [][Next]_vars

(***************************************************************************)
(* What the buffer holds, read off its state.                              *)
(***************************************************************************)
\* the offsets head and tail move over: 0 .. Cap * W
RingLen == Cap * W + 1

\* the number of bytes from tail up to head
Count(bf) == (bf.head - bf.tail + RingLen) % RingLen

\* those bytes, oldest first
StoredBytes(bf) == [i \in 1 .. Count(bf) |-> bf.data[(bf.tail + i - 1) % RingLen]]

\* the bytes of a sequence of elements, in order
Flatten(es) == [k \in 1 .. Len(es) * W |-> es[((k - 1) \div W) + 1][((k - 1) % W) + 1]]

\* the first n bytes of memory m
MemBytes(m, n) == [k \in 1 .. n |-> m[k - 1]]

\* the number of elements the last call moved
Moved == l - ret

(***************************************************************************)
(* C1: in Queue mode with Drop policy the elements a pop delivers are the  *)
(* oldest elements that were pushed with success and not yet delivered, in *)
(* the order of their pushes, each with its bytes in the pushed order.     *)
(***************************************************************************)
C1_QueueFifo ==
    (live /\ AskedQueue /\ AskedDrop /\ op = "popFromBuffer")
        => Elems(d, W, Moved) = expect

\* a pop of two 2-byte elements during which tail wrapped past the last offset
C1_Witness ==
    /\ live /\ AskedQueue /\ AskedDrop /\ op = "popFromBuffer"
    /\ W = 2 /\ l = 2 /\ ret = 0
    /\ b.tail < pre.tail
    /\ expect[1] # expect[2]

(***************************************************************************)
(* C2: in Stack mode with Drop policy a pop delivers the most recently     *)
(* pushed elements, newest first, and each delivered element has its bytes *)
(* in the order in which they were pushed.                                 *)
(***************************************************************************)
C2_StackLifo ==
    (live /\ AskedStack /\ AskedDrop /\ op = "popFromBuffer")
        => Elems(d, W, Moved) = expect

\* a pop of two different 2-byte elements from a stack
C2_Witness ==
    /\ live /\ AskedStack /\ AskedDrop /\ op = "popFromBuffer"
    /\ W = 2 /\ l = 2 /\ ret = 0
    /\ expect[1] # expect[2]

(***************************************************************************)
(* C3: with Drop policy a push of l elements into a buffer with room for   *)
(* r < l stores the first r in order after the elements already stored,    *)
(* returns l - r, leaves tail and the stored elements as they were and the *)
(* buffer holding Cap elements; with r = 0 head does not move either.      *)
(***************************************************************************)
C3_DropPartialPush ==
    LET r == Cap - (Count(pre) \div W)
    IN  (live /\ AskedDrop /\ op = "pushToBuffer" /\ r < l)
            => /\ ret = l - r
               /\ StoredBytes(b) = StoredBytes(pre) \o MemBytes(d, r * W)
               /\ b.tail = pre.tail
               /\ Count(b) = Cap * W
               /\ (r = 0 => b.head = pre.head /\ StoredBytes(b) = StoredBytes(pre))

\* a push of two elements of which one fitted
C3_Witness ==
    /\ live /\ AskedDrop /\ op = "pushToBuffer"
    /\ l = 2 /\ ret = 1 /\ W = 2
    /\ Count(pre) = (Cap - 1) * W

(***************************************************************************)
(* C4: with Overwrite policy pushToBuffer returns 0, whatever the count    *)
(* and the state, in both modes.                                           *)
(***************************************************************************)
C4_OverwritePushReturnsZero ==
    (live /\ AskedOverwrite /\ op = "pushToBuffer") => ret = 0

\* a push of more than one element into a full buffer
C4_Witness ==
    /\ live /\ AskedOverwrite /\ op = "pushToBuffer"
    /\ isBufferFull(pre) /\ l > 1 /\ ret = 0

(***************************************************************************)
(* C5: with Overwrite policy the buffer holds the most recent elements     *)
(* pushed and not popped, at most Cap of them and exactly Cap after a push *)
(* that went past the capacity, whole and with their bytes in order (the   *)
(* oldest were evicted), and a pop delivers them oldest first from a queue *)
(* and newest first from a stack.                                          *)
(***************************************************************************)
C5_OverwriteKeepsMostRecent ==
    (live /\ AskedOverwrite)
        => /\ StoredBytes(b) = Flatten(hist)
           /\ (op = "pushToBuffer" /\ Count(pre) + l * W > Cap * W
                   => Count(b) = Cap * W /\ Len(hist) = Cap)
           /\ (op = "popFromBuffer" => Elems(d, W, Moved) = expect)

\* a stack whose tail has left the first offset, so elements were evicted,
\* and from which a pop has then delivered Cap elements
C5_Witness ==
    /\ live /\ AskedOverwrite /\ AskedStack /\ op = "popFromBuffer"
    /\ pre.tail > 0 /\ W = 2 /\ Cap = 2 /\ Moved = Cap
    /\ expect[1] # expect[2]

C7_OverwritePopReturnsZero ==
    (live /\ AskedOverwrite /\ op = "popFromBuffer") => ret = 0

(***************************************************************************)
(* C8: right after a successful newBuffer isBufferEmpty returns true and   *)
(* isBufferFull returns false, for every capacity, width and behaviour.    *)
(***************************************************************************)
C8_NewBufferEmptyNotFull ==
    (live /\ op = "newBuffer") => (isBufferEmpty(b) /\ ~isBufferFull(b))

\* a new buffer of the smallest size
C8_Witness ==
    live /\ op = "newBuffer" /\ Cap = 1 /\ W = 1

(***************************************************************************)
(* C9: isBufferFull returns true exactly when Cap elements are stored, and *)
(* never more than Cap elements are stored, for every width and policy.    *)
(***************************************************************************)
C9_FullIffCapacity ==
    live => /\ Len(hist) <= Cap
            /\ Count(b) = Len(hist) * W
            /\ (isBufferFull(b) <=> Len(hist) = Cap)

\* a full buffer whose head lies just below its tail
C9_Witness ==
    /\ live /\ isBufferFull(b) /\ Len(hist) = Cap
    /\ b.tail = b.head + 1 /\ W = 2

(***************************************************************************)
(* C10: isBufferEmpty and isBufferFull change nothing of the buffer, and a *)
(* call repeated with no push or pop in between returns the same result.   *)
(***************************************************************************)
C10_QueriesChangeNothing ==
    [][(op' \in {"isBufferEmpty", "isBufferFull"})
          => /\ b' = b /\ cfg' = cfg /\ live' = live /\ heap' = heap
             /\ (op = op' => ret' = ret)]_vars

\* isBufferFull has returned 1 and the buffer is as it was before the call
C10_Witness ==
    /\ live /\ op = "isBufferFull" /\ ret = 1 /\ b = pre

(***************************************************************************)
(* C11: newBuffer returns either a buffer with both blocks allocated, head *)
(* and tail at the start of the zeroed data, width and depth set, or NULL  *)
(* with no block left allocated: the struct is freed again when the data   *)
(* cannot be allocated.                                                    *)
(***************************************************************************)
C11_NewBufferAllOrNothing ==
    (op = "newBuffer")
        => \/ /\ live
              /\ heap = {"buffer_t", "data"}
              /\ b.head = 0 /\ b.tail = 0
              /\ b.width = W /\ b.depth = Cap + 1
              /\ b.behavior = cfg.behavior
              /\ b.data = [i \in 0 .. (Cap + 1) * W - 1 |-> 0]
           \/ /\ ~live
              /\ heap = {}
              /\ b = NoBuffer

\* newBuffer has returned NULL after it freed the struct it had allocated
C11_Witness ==
    op = "newBuffer" /\ ~live /\ freed = {"buffer_t"} /\ heap = {}

(***************************************************************************)
(* C12 as stated: head and tail, as offsets from the start of the data,    *)
(* are at least 0 and less than Cap + 1, for every width.                  *)
(***************************************************************************)
C12_OffsetsBelowSlotCount ==
    live => /\ 0 <= b.head /\ b.head < Cap + 1
            /\ 0 <= b.tail /\ b.tail < Cap + 1

(***************************************************************************)
(* C12 as amended: head and tail are byte offsets, and the index of the    *)
(* slot each lies in, the offset divided by the width, is at least 0 and   *)
(* less than Cap + 1.                                                      *)
(***************************************************************************)
C12_SlotIndexBelowSlotCount ==
    live => /\ 0 <= b.head \div W /\ b.head \div W < Cap + 1
            /\ 0 <= b.tail \div W /\ b.tail \div W < Cap + 1

\* head lies in the last slot, at a byte offset of Cap + 1 or more
C12_Witness ==
    live /\ W = 2 /\ b.head >= Cap + 1 /\ b.head \div W = Cap

(***************************************************************************)
(* Cursor steps as the claims describe them, on offsets of the data block. *)
(***************************************************************************)
\* one byte forward, from the last offset Cap * W round to 0
ByteStep(x) == IF x < Cap * W THEN x + 1 ELSE 0
\* one byte back, from 0 round to the last offset
ByteBack(x) == IF x > 0 THEN x - 1 ELSE Cap * W
\* one slot of W bytes forward, from the last slot round to slot 0
SlotStep(x) == IF x \div W < Cap THEN x + W ELSE 0
\* one slot back, from slot 0 round to the last slot
SlotBack(x) == IF x \div W > 0 THEN x - W ELSE Cap * W

\* n steps of a kind from x
RECURSIVE StepN(_, _, _)
StepN(Step(_), x, n) == IF n = 0 THEN x ELSE StepN(Step, Step(x), n - 1)

\* the calls of increment and decrement that the last push or pop made on
\* head and tail, one for every byte it moved, took the cursors from where
\* they were to where they are by steps of the kinds given
CursorsMovedBy(Fwd(_), Back(_)) ==
    (live /\ failedbytes = 0)
        => /\ op = "pushToBuffer"
                => b.head = StepN(Fwd, pre.head, Moved * W)
           /\ (op = "popFromBuffer" /\ AskedQueue)
                => b.tail = StepN(Fwd, pre.tail, Moved * W) /\ b.head = pre.head
           /\ (op = "popFromBuffer" /\ AskedStack)
                => b.head = StepN(Back, pre.head, Moved * W) /\ b.tail = pre.tail

(***************************************************************************)
(* C13 as stated: every call of increment moves the cursor to the next     *)
(* slot, W bytes on, and from the last slot to slot 0; every call of       *)
(* decrement moves it to the slot before, and from slot 0 to the last.     *)
(***************************************************************************)
C13_StepsAreSlots == CursorsMovedBy(SlotStep, SlotBack)

(***************************************************************************)
(* C13 as amended: every call of increment moves the cursor one byte on,   *)
(* and from offset Cap * W to offset 0; every call of decrement moves it   *)
(* one byte back, and from offset 0 to offset Cap * W.                     *)
(***************************************************************************)
C13_StepsAreBytes == CursorsMovedBy(ByteStep, ByteBack)

\* a pop from a stack of 2-byte elements during which head stepped back
\* from offset 0 to the last offset
C13_Witness ==
    /\ live /\ op = "popFromBuffer" /\ AskedStack /\ W = 2
    /\ Moved >= 1 /\ b.head > pre.head

(***************************************************************************)
(* Whole and torn contents.                                                *)
(***************************************************************************)
\* the W bytes of one element as the caller pushes them
IsElement(bytes) == \E v \in Values : bytes = [i \in 1 .. W |-> ElementByte(v, i - 1)]

\* the bytes from tail up to head are a whole number of elements, each with
\* all its bytes in order
Whole(bf) ==
    /\ Count(bf) % W = 0
    /\ \A e \in 0 .. (Count(bf) \div W) - 1 :
          IsElement([i \in 1 .. W |-> StoredBytes(bf)[e * W + i]])

\* the buffer holds a part of an element
Torn(bf) == ~Whole(bf)

(***************************************************************************)
(* C14 as stated: with Overwrite policy and a width above 1, a push into a *)
(* full buffer can leave a torn element in the buffer.                     *)
(***************************************************************************)
C14_PushIntoFullCanTear ==
    (live /\ AskedOverwrite /\ W > 1 /\ isBufferFull(b))
        => ENABLED (CallPushToBuffer /\ Torn(b)')

(***************************************************************************)
(* C14 as amended: with Overwrite policy, whatever the width, no call      *)
(* leaves a torn element: after every call the bytes between tail and head *)
(* are a whole number of elements, and a push into a full buffer evicts as *)
(* many whole elements as it stores.                                       *)
(***************************************************************************)
C14_NeverTorn ==
    (live /\ AskedOverwrite)
        => /\ Whole(b)
           /\ (op = "pushToBuffer" /\ isBufferFull(pre))
                => /\ isBufferFull(b)
                   /\ b.tail = StepN(ByteStep, pre.tail, l * W)

\* a push of 2-byte elements into a full buffer has moved tail
C14_Witness ==
    /\ live /\ AskedOverwrite /\ op = "pushToBuffer"
    /\ W = 2 /\ isBufferFull(pre) /\ b.tail # pre.tail /\ Whole(b)

(***************************************************************************)
(* C15: in no call, whatever the mode, the policy and the width, does the  *)
(* branch that undoes a part of an element do anything: pushToBuffer never *)
(* finds the buffer full, and popFromBuffer never finds it empty, at a     *)
(* byteIndex above 0.                                                      *)
(***************************************************************************)
C15_NoPartialElementUndo ==
    live => failedbytes = 0

\* a pop of 2-byte elements that delivered one element and then found the
\* buffer empty, at byteIndex 0
C15_Witness ==
    /\ live /\ op = "popFromBuffer" /\ W = 2
    /\ ret > 0 /\ Moved > 0 /\ failedbytes = 0

(***************************************************************************)
(* pushToBuffer and popFromBuffer as functions of the buffer they are      *)
(* handed.  Their branches for an incomplete element ("this should never   *)
(* run, but added just in case") act only on a buffer whose bytes are not  *)
(* a whole number of elements, which no calls on a new buffer produce      *)
(* (C15).  SpecPartial calls each of the two functions once on every      *)
(* buffer_t whose head and tail lie in the ring, with every byte of the    *)
(* data different.                                                         *)
(***************************************************************************)
\* the byte at offset i of the data block the functions are handed
HandedByte(i) == 100 + i

InitPartial ==
    \E numberOfElements \in 1 .. MaxCapacity, elementSizeInBytes \in 1 .. MaxWidth,
       behavior \in Behaviors :
    \E head \in 0 .. numberOfElements * elementSizeInBytes,
       tail \in 0 .. numberOfElements * elementSizeInBytes :
        /\ live = TRUE
        /\ heap = {"buffer_t", "data"}
        /\ freed = {}
        /\ cfg = [numberOfElements |-> numberOfElements,
                  elementSizeInBytes |-> elementSizeInBytes,
                  behavior |-> behavior]
        /\ b = [newBufferInit(numberOfElements, elementSizeInBytes, behavior)
                   EXCEPT !.head = head, !.tail = tail,
                          !.data = [i \in 0 .. (numberOfElements + 1) * elementSizeInBytes - 1
                                       |-> HandedByte(i)]]
        /\ op = "none"
        /\ l = 0
        /\ d = <<>>
        /\ ret = 0
        /\ pre = NoBuffer
        /\ failedbytes = 0
        /\ hist = <<>>
        /\ expect = <<>>

\* one call on each buffer handed over
NextPartial ==
    \/ (op = "none" /\ CallPushToBuffer)
    \/ (op = "none" /\ CallPopFromBuffer)

SpecPartial == InitPartial /\ [][NextPartial]_vars

C17_PushUndoRestores ==
    LET free  == Cap * W - Count(pre)
        whole == free \div W
        k     == free % W
    IN  (live /\ AskedDrop /\ op = "pushToBuffer" /\ k > 0 /\ whole < l)
            => /\ failedbytes = k
               /\ ret = l - whole
               /\ b.head = StepN(ByteStep, pre.head, whole * W)
               /\ b.tail = pre.tail
               /\ StoredBytes(b) = StoredBytes(pre) \o MemBytes(d, whole * W)

\* a push that stored one 2-byte element and took back a byte of the next,
\* stepping head back from offset 0 to the last offset
C17_Witness ==
    /\ live /\ AskedDrop /\ op = "pushToBuffer"
    /\ W = 2 /\ failedbytes = 1 /\ Moved = 1 /\ ret = 1
    /\ b.head = Cap * W

(***************************************************************************)
(* C18: head and tail are byte offsets from 0 to Cap * W, so every byte    *)
(* read or written through them lies in the data block of (Cap + 1) * W    *)
(* bytes, for every capacity and width.                                    *)
(***************************************************************************)
C18_CursorsInsideData ==
    live => /\ b.head \in 0 .. Cap * W
            /\ b.tail \in 0 .. Cap * W
            /\ DOMAIN b.data = 0 .. (Cap + 1) * W - 1
            /\ b.head \in DOMAIN b.data
            /\ b.tail \in DOMAIN b.data

\* a push has taken head to the last offset it can have
C18_Witness ==
    /\ live /\ op = "pushToBuffer" /\ W = 2 /\ Cap = 2
    /\ b.head = Cap * W /\ b.tail > 0

(***************************************************************************)
(* C19: in Stack mode with Drop policy no push and no pop moves tail: it   *)
(* stays at the start of the data, and only head moves.                    *)
(***************************************************************************)
C19_StackDropTailFixed ==
    (live /\ AskedStack /\ AskedDrop)
        => /\ b.tail = 0
           /\ (op \in {"pushToBuffer", "popFromBuffer"} => b.tail = pre.tail)

\* a pop from a stack has moved head and left tail at the start
C19_Witness ==
    /\ live /\ AskedStack /\ AskedDrop /\ op = "popFromBuffer"
    /\ Moved >= 1 /\ b.head # pre.head /\ b.tail = 0

====
